---- MODULE Spec2Model ----
(***************************************************************************)
(* A model of counter-rs (src/src/lib.rs): Counter<'a, T>, a HashMap from  *)
(* elements to usize counts, with new/init/update/subtract/most_common and *)
(* the operators +, -, & and |.                                            *)
(*                                                                         *)
(* A HashMap is a function whose DOMAIN is its key set.  Two Counters, c   *)
(* and d, are kept; every call of the public API is one action.  The       *)
(* variable last records the call just made (its arguments, the receiver   *)
(* before the call, its result), so that the properties can relate a       *)
(* call's result to its inputs.                                            *)
(*                                                                         *)
(* Counts are naturals kept at or below MaxCount by the guards of the      *)
(* actions that add: the model does not reach a sum that overflows usize   *)
(* (where a debug build panics and a release build wraps).                 *)
(***************************************************************************)
EXTENDS Naturals, Sequences, FiniteSets

\* ---- bounds ----
MaxCount == 2
MaxLen == 2

\* the elements counted, and the larger set used to exercise most_common alone
Elems == {"x", "y"}

SortElems == {"x", "y", "z"}
Regs == {"c", "d"}

VARIABLES counters, last, direct

vars == <<counters, last, direct>>

\* ---- HashMap<&T, usize> ----
EmptyMap == [k \in {} |-> 0]

Insert(m, k, v) == [e \in DOMAIN m \cup {k} |-> IF e = k THEN v ELSE m[e]]

Remove(m, k) == [e \in DOMAIN m \ {k} |-> m[e]]

OrInsert(m, k, v) == IF k \in DOMAIN m THEN m ELSE Insert(m, k, v)

\* the orders in which an iteration over a hash set of keys can run
Orders(S) ==
  {o \in [1..Cardinality(S) -> S] : \A i, j \in 1..Cardinality(S) : i # j => o[i] # o[j]}

Iterables == UNION {[1..n -> Elems] : n \in 0..MaxLen}

InRange(m) == \A k \in DOMAIN m : m[k] <= MaxCount

min(a, b) == IF a <= b THEN a ELSE b

max(a, b) == IF a >= b THEN a ELSE b

\* ---- Counter::new, update, init, subtract ----
new == EmptyMap

\* mutant: every occurrence stores 1 instead of incrementing
update_item_store_one(map, item) == Insert(map, item, 1)

update_item(map, item) == [OrInsert(map, item, 0) EXCEPT ![item] = @ + 1]

RECURSIVE update(_, _)
update(map, iterable) ==
  IF iterable = <<>> THEN map
  ELSE update(update_item(map, Head(iterable)), Tail(iterable))

init(iterable) == update(new, iterable)

\* mutant: the entry that reaches 0 is kept
subtract_item_keep_zero(map, item) ==
  IF item \in DOMAIN map
  THEN [map EXCEPT ![item] = IF @ > 0 THEN @ - 1 ELSE @]
  ELSE map

\* mutant: the entry is removed one decrement too early
subtract_item_remove_early(map, item) ==
  IF item \in DOMAIN map
  THEN LET entry == IF map[item] > 0 THEN map[item] - 1 ELSE map[item]
       IN IF entry <= 1 THEN Remove(map, item) ELSE [map EXCEPT ![item] = entry]
  ELSE map

\* mutant: removal is decided only when a decrement happened, so an entry
\* already at 0 stays
subtract_item_stale_zero(map, item) ==
  IF item \in DOMAIN map /\ map[item] > 0
  THEN IF map[item] - 1 = 0 THEN Remove(map, item) ELSE [map EXCEPT ![item] = @ - 1]
  ELSE map

subtract_item(map, item) ==
  IF item \in DOMAIN map
  THEN LET entry == IF map[item] > 0 THEN map[item] - 1 ELSE map[item]
           remove == entry = 0
       IN IF remove THEN Remove(map, item) ELSE [map EXCEPT ![item] = entry]
  ELSE map

RECURSIVE subtract(_, _)
subtract(map, iterable) ==
  IF iterable = <<>> THEN map
  ELSE subtract(subtract_item(map, Head(iterable)), Tail(iterable))

\* ---- Counter::most_common ----
\* the comparator of sort_by, |a, b| b.cmp(a) on the counts: p goes strictly
\* before q when q's count is less than p's
\* mutant: the comparator is a.cmp(b), ascending
Before_ascending(p, q) == p[2] < q[2]

Before(p, q) == q[2] < p[2]

\* a stable sort keeps equal elements in their original order: each element
\* goes after every element already placed that it does not go before
sorted_insert(s, e) ==
  LET n == Cardinality({i \in 1..Len(s) : ~Before(e, s[i])})
  IN SubSeq(s, 1, n) \o <<e>> \o SubSeq(s, n + 1, Len(s))

RECURSIVE sort_by(_)
sort_by(items) ==
  IF items = <<>> THEN <<>>
  ELSE sorted_insert(sort_by(SubSeq(items, 1, Len(items) - 1)), items[Len(items)])

\* ord is the order in which map.iter() yields the keys
most_common(map, ord) == sort_by([i \in 1..Len(ord) |-> <<ord[i], map[ord[i]]>>])

\* ---- impl Add ----
\* mutant: the count of rhs overwrites the entry instead of being added to it
add_entry_overwrite(counter, key, value) == Insert(counter, key, value)

add_entry(counter, key, value) == [OrInsert(counter, key, 0) EXCEPT ![key] = @ + value]

RECURSIVE add_loop(_, _, _)
add_loop(counter, rhs, ord) ==
  IF ord = <<>> THEN counter
  ELSE add_loop(add_entry(counter, Head(ord), rhs[Head(ord)]), rhs, Tail(ord))

\* ord is the order in which rhs.map.iter() yields the keys
add(self, rhs, ord) == add_loop(self, rhs, ord)

\* ---- impl Sub ----
\* mutant: a smaller entry is left as it is instead of being removed
sub_entry_keep_smaller(counter, key, value) ==
  IF key \in DOMAIN counter
  THEN IF counter[key] > value THEN [counter EXCEPT ![key] = @ - value]
       ELSE IF counter[key] = value THEN Remove(counter, key) ELSE counter
  ELSE counter

\* mutant: the check *entry == 0 is missing
sub_entry_keep_zero(counter, key, value) ==
  IF key \in DOMAIN counter
  THEN IF counter[key] >= value THEN [counter EXCEPT ![key] = @ - value]
       ELSE Remove(counter, key)
  ELSE counter

sub_entry(counter, key, value) ==
  IF key \in DOMAIN counter
  THEN LET ge == counter[key] >= value
           entry == IF ge THEN counter[key] - value ELSE counter[key]
           remove == (~ge) \/ entry = 0
       IN IF remove THEN Remove(counter, key) ELSE [counter EXCEPT ![key] = entry]
  ELSE counter

RECURSIVE sub_loop(_, _, _)
sub_loop(counter, rhs, ord) ==
  IF ord = <<>> THEN counter
  ELSE sub_loop(sub_entry(counter, Head(ord), rhs[Head(ord)]), rhs, Tail(ord))

sub(self, rhs, ord) == sub_loop(self, rhs, ord)

\* ---- impl BitAnd ----
both_keys(self, rhs) == DOMAIN self \cap DOMAIN rhs

\* mutant: max in place of min
bitand_entry_max(counter, self, rhs, key) == Insert(counter, key, max(self[key], rhs[key]))

bitand_entry(counter, self, rhs, key) == Insert(counter, key, min(self[key], rhs[key]))

RECURSIVE bitand_loop(_, _, _, _)
bitand_loop(counter, self, rhs, ord) ==
  IF ord = <<>> THEN counter
  ELSE bitand_loop(bitand_entry(counter, self, rhs, Head(ord)), self, rhs, Tail(ord))

\* ord is the order in which the intersection both_keys is iterated
bitand(self, rhs, ord) == bitand_loop(new, self, rhs, ord)

\* ---- impl BitOr ----
\* mutant: or_insert is missing, only the keys of self are updated
bitor_entry_existing_only(counter, key, value) ==
  IF key \in DOMAIN counter THEN [counter EXCEPT ![key] = max(@, value)] ELSE counter

bitor_entry(counter, key, value) == [OrInsert(counter, key, 0) EXCEPT ![key] = max(@, value)]

RECURSIVE bitor_loop(_, _, _)
bitor_loop(counter, rhs, ord) ==
  IF ord = <<>> THEN counter
  ELSE bitor_loop(bitor_entry(counter, Head(ord), rhs[Head(ord)]), rhs, Tail(ord))

bitor(self, rhs, ord) == bitor_loop(self, rhs, ord)

\* ---- the calls ----
Call(op, tgt, arg, pre, lhs, rhs, undo, items) ==
  [op |-> op, tgt |-> tgt, arg |-> arg, pre |-> pre, lhs |-> lhs, rhs |-> rhs,
   undo |-> undo, items |-> items]

Init ==
  /\ counters = [r \in Regs |-> new]
  /\ last = Call("new", "c", <<>>, EmptyMap, EmptyMap, EmptyMap, {}, <<>>)
  /\ direct = FALSE

CallNew(t) ==
  /\ counters' = [counters EXCEPT ![t] = new]
  /\ last' = Call("new", t, <<>>, EmptyMap, EmptyMap, EmptyMap, {}, <<>>)
  /\ UNCHANGED direct

CallInit(t, iterable) ==
  /\ InRange(init(iterable))
  /\ counters' = [counters EXCEPT ![t] = init(iterable)]
  /\ last' = Call("init", t, iterable, EmptyMap, EmptyMap, EmptyMap, {}, <<>>)
  /\ UNCHANGED direct

CallUpdate(t, iterable) ==
  /\ InRange(update(counters[t], iterable))
  /\ counters' = [counters EXCEPT ![t] = update(counters[t], iterable)]
  /\ last' = Call("update", t, iterable, counters[t], EmptyMap, EmptyMap, {}, <<>>)
  /\ UNCHANGED direct

\* undo holds the receiver as it was before the preceding call, when that call
\* was update of the same receiver with the same iterable
CallSubtract(t, iterable) ==
  /\ counters' = [counters EXCEPT ![t] = subtract(counters[t], iterable)]
  /\ last' = Call("subtract", t, iterable, counters[t], EmptyMap, EmptyMap,
                  IF last.op = "update" /\ last.tgt = t /\ last.arg = iterable
                  THEN {last.pre} ELSE {},
                  <<>>)
  /\ UNCHANGED direct

CallMostCommon(t) ==
  /\ \E ord \in Orders(DOMAIN counters[t]) :
       last' = Call("most_common", t, <<>>, counters[t], EmptyMap, EmptyMap, {},
                    most_common(counters[t], ord))
  /\ UNCHANGED <<counters, direct>>

\* the operators take their operands by value (clones of the registers l and
\* r); the result is bound to register t
CallAdd(l, r, t) ==
  \E ord \in Orders(DOMAIN counters[r]) :
    /\ InRange(add(counters[l], counters[r], ord))
    /\ counters' = [counters EXCEPT ![t] = add(counters[l], counters[r], ord)]
    /\ last' = Call("add", t, <<>>, EmptyMap, counters[l], counters[r], {}, <<>>)
    /\ UNCHANGED direct

\* undo holds the left operand of the preceding call, when that call was an
\* addition whose result is this call's left operand and whose right operand
\* equals this call's
CallSub(l, r, t) ==
  \E ord \in Orders(DOMAIN counters[r]) :
    /\ counters' = [counters EXCEPT ![t] = sub(counters[l], counters[r], ord)]
    /\ last' = Call("sub", t, <<>>, EmptyMap, counters[l], counters[r],
                    IF last.op = "add" /\ last.tgt = l /\ last.rhs = counters[r]
                    THEN {last.lhs} ELSE {},
                    <<>>)
    /\ UNCHANGED direct

CallBitAnd(l, r, t) ==
  \E ord \in Orders(both_keys(counters[l], counters[r])) :
    /\ counters' = [counters EXCEPT ![t] = bitand(counters[l], counters[r], ord)]
    /\ last' = Call("bitand", t, <<>>, EmptyMap, counters[l], counters[r], {}, <<>>)
    /\ UNCHANGED direct

CallBitOr(l, r, t) ==
  \E ord \in Orders(DOMAIN counters[r]) :
    /\ counters' = [counters EXCEPT ![t] = bitor(counters[l], counters[r], ord)]
    /\ last' = Call("bitor", t, <<>>, EmptyMap, counters[l], counters[r], {}, <<>>)
    /\ UNCHANGED direct

\* a direct write through the public field map (HashMap::insert)
MapInsert(t, k, v) ==
  /\ counters' = [counters EXCEPT ![t] = Insert(counters[t], k, v)]
  /\ last' = Call("insert", t, <<k>>, counters[t], EmptyMap, EmptyMap, {}, <<>>)
  /\ direct' = TRUE

Next ==
  \/ \E t \in Regs : CallNew(t)
  \/ \E t \in Regs, iterable \in Iterables : CallInit(t, iterable)
  \/ \E t \in Regs, iterable \in Iterables : CallUpdate(t, iterable)
  \/ \E t \in Regs, iterable \in Iterables : CallSubtract(t, iterable)
  \/ \E t \in Regs : CallMostCommon(t)
  \/ \E l, r, t \in Regs : CallAdd(l, r, t)
  \/ \E l, r, t \in Regs : CallSub(l, r, t)
  \/ \E l, r, t \in Regs : CallBitAnd(l, r, t)
  \/ \E l, r, t \in Regs : CallBitOr(l, r, t)

Spec == Init /\ [][Next]_vars

NextDirect ==
  \/ Next
  \/ \E t \in Regs, k \in Elems, v \in 0..MaxCount : MapInsert(t, k, v)

SpecDirect == Init /\ [][NextDirect]_vars

\* most_common is a function of the map alone: here the receiver starts as any
\* map over SortElems (a zero count only where a direct write put it)
InitMostCommon ==
  /\ \E K \in SUBSET SortElems : \E m \in [K -> 0..MaxCount] :
       /\ counters = [r \in Regs |-> IF r = "c" THEN m ELSE new]
       /\ direct = (\E k \in K : m[k] = 0)
  /\ last = Call("given", "c", <<>>, EmptyMap, EmptyMap, EmptyMap, {}, <<>>)

NextMostCommon == \E t \in Regs : CallMostCommon(t)

SpecMostCommon == InitMostCommon /\ [][NextMostCommon]_vars

\* ---- vocabulary of the properties ----
Positive(m) == \A k \in DOMAIN m : m[k] > 0

\* the count of x in m, an absent key counting as 0
Count(m, x) == IF x \in DOMAIN m THEN m[x] ELSE 0

Occurrences(S, x) == Cardinality({i \in 1..Len(S) : S[i] = x})

Range(S) == {S[i] : i \in 1..Len(S)}

Out == counters[last.tgt]

\* ---- C1 ----
\* C1: from new() or init(S), after any sequence of update, subtract and the
\* four operators, every key stored in a Counter has a count greater than 0.
C1_PositiveCounts == \A r \in Regs : Positive(counters[r])

\* a difference has just removed a key whose counts were equal in both operands
C1_Witness ==
  /\ last.op = "sub"
  /\ \E k \in DOMAIN last.lhs \cap DOMAIN last.rhs :
       last.lhs[k] = last.rhs[k] /\ k \notin DOMAIN Out
  /\ Out # EmptyMap

\* ---- C2 ----
\* m maps every element to its number of occurrences in S and holds no other key
CountsOccurrences(m, S) ==
  \A x \in Elems :
    IF Occurrences(S, x) = 0 THEN x \notin DOMAIN m
    ELSE x \in DOMAIN m /\ m[x] = Occurrences(S, x)

\* C2: init(S) maps each element to its number of occurrences in S and has no
\* entry for an element that does not occur in S; new() followed by update(S)
\* gives the same mapping.
C2_InitCounts ==
  /\ last.op = "init" => CountsOccurrences(Out, last.arg)
  /\ (last.op = "update" /\ last.pre = new) =>
       CountsOccurrences(Out, last.arg) /\ Out = init(last.arg)

\* init of an iterable that repeats an element
C2_Witness ==
  /\ last.op = "init"
  /\ Len(last.arg) = 2
  /\ last.arg[1] = last.arg[2]
  /\ Out[last.arg[1]] = 2

\* ---- C3 ----
\* C3: for a Counter with positive counts, update(I) followed by subtract(I)
\* restores the mapping exactly: the same keys with the same counts.
C3_UpdateSubtractRestores ==
  (last.op = "subtract" /\ last.undo # {}) =>
    \A m \in last.undo : Positive(m) => Out = m

\* the iterable repeats an element that the Counter did not hold, next to a key
\* it did hold
C3_Witness ==
  /\ last.op = "subtract"
  /\ \E m \in last.undo :
       /\ Positive(m) /\ m # EmptyMap
       /\ Len(last.arg) = 2 /\ last.arg[1] = last.arg[2]
       /\ last.arg[1] \notin DOMAIN m
       /\ Out = m

\* ---- C4 ----
\* C4 as stated: subtract of one element that is absent, or stored with count
\* 0, leaves the whole mapping as it was.
C4_SubtractZeroOrAbsentNoOp ==
  (last.op = "subtract" /\ Len(last.arg) = 1
     /\ Count(last.pre, last.arg[1]) = 0) => Out = last.pre

\* C4, amended: subtract of an absent element changes nothing and creates no
\* entry; subtract of an element stored with count 0 removes that entry; no key
\* outside the iterable changes; a stored count of 0 comes only from a direct
\* write to the public map.
C4_SubtractZeroRemovedAbsentNoOp ==
  /\ last.op = "subtract" =>
       /\ \A x \in Range(last.arg) : Count(last.pre, x) = 0 => x \notin DOMAIN Out
       /\ \A k \in Elems \ Range(last.arg) :
            /\ k \in DOMAIN Out <=> k \in DOMAIN last.pre
            /\ Count(Out, k) = Count(last.pre, k)
       /\ (\A x \in Range(last.arg) : x \notin DOMAIN last.pre) => Out = last.pre
  /\ (\E r \in Regs : ~Positive(counters[r])) => direct

\* subtract has just met an entry stored with count 0 and removed it, leaving
\* the other key alone
C4_Witness ==
  /\ last.op = "subtract"
  /\ Len(last.arg) = 1
  /\ last.arg[1] \in DOMAIN last.pre
  /\ last.pre[last.arg[1]] = 0
  /\ last.arg[1] \notin DOMAIN Out
  /\ Out # EmptyMap

\* ---- C5 ----
\* C5: for c and d with positive counts, c - d maps x to count_c(x) - count_d(x)
\* when x is in c and count_d(x) < count_c(x) (an absent key of d counting 0),
\* and holds no entry for x otherwise.
C5_Difference ==
  (last.op = "sub" /\ Positive(last.lhs) /\ Positive(last.rhs)) =>
    \A x \in Elems :
      IF x \in DOMAIN last.lhs /\ Count(last.rhs, x) < last.lhs[x]
      THEN x \in DOMAIN Out /\ Out[x] = last.lhs[x] - Count(last.rhs, x)
      ELSE x \notin DOMAIN Out

\* the boundary case: one key with equal counts, one where d's count is larger
C5_Witness ==
  /\ last.op = "sub"
  /\ Positive(last.lhs) /\ Positive(last.rhs)
  /\ \E x, y \in DOMAIN last.lhs \cap DOMAIN last.rhs :
       last.lhs[x] = last.rhs[x] /\ last.lhs[y] < last.rhs[y]
  /\ Out = EmptyMap

\* ---- C6 ----
\* C6: for c and d with positive counts, c & d has exactly the keys present in
\* both, each mapped to the smaller of its two counts.
C6_Intersection ==
  (last.op = "bitand" /\ Positive(last.lhs) /\ Positive(last.rhs)) =>
    /\ DOMAIN Out = DOMAIN last.lhs \cap DOMAIN last.rhs
    /\ \A x \in DOMAIN Out :
         /\ Out[x] <= last.lhs[x] /\ Out[x] <= last.rhs[x]
         /\ Out[x] \in {last.lhs[x], last.rhs[x]}

\* one shared key with different counts, one key that only an operand holds
C6_Witness ==
  /\ last.op = "bitand"
  /\ Positive(last.lhs) /\ Positive(last.rhs)
  /\ \E x \in DOMAIN Out : last.lhs[x] < last.rhs[x]
  /\ DOMAIN last.lhs # DOMAIN last.rhs

\* ---- C7 ----
\* C7: for c and d with positive counts, c | d has exactly the keys present in
\* either, each mapped to the larger of its counts, a key of one operand only
\* keeping that operand's count.
C7_Union ==
  (last.op = "bitor" /\ Positive(last.lhs) /\ Positive(last.rhs)) =>
    /\ DOMAIN Out = DOMAIN last.lhs \cup DOMAIN last.rhs
    /\ \A x \in DOMAIN Out :
         /\ Out[x] >= Count(last.lhs, x) /\ Out[x] >= Count(last.rhs, x)
         /\ Out[x] \in {Count(last.lhs, x), Count(last.rhs, x)}

\* a key of d only, and a shared key whose count in d is larger
C7_Witness ==
  /\ last.op = "bitor"
  /\ Positive(last.lhs) /\ Positive(last.rhs)
  /\ \E x \in DOMAIN last.rhs \ DOMAIN last.lhs : Out[x] = last.rhs[x]
  /\ \E y \in DOMAIN last.lhs \cap DOMAIN last.rhs :
       last.lhs[y] < last.rhs[y] /\ Out[y] = last.rhs[y]

\* ---- C8 ----
\* C8: for c and d with positive counts, c + d has exactly the keys present in
\* either, each mapped to count_c(x) + count_d(x), an absent key counting 0.
C8_Sum ==
  (last.op = "add" /\ Positive(last.lhs) /\ Positive(last.rhs)) =>
    /\ DOMAIN Out = DOMAIN last.lhs \cup DOMAIN last.rhs
    /\ \A x \in DOMAIN Out : Out[x] = Count(last.lhs, x) + Count(last.rhs, x)

\* a shared key, and a key of d only
C8_Witness ==
  /\ last.op = "add"
  /\ Positive(last.lhs) /\ Positive(last.rhs)
  /\ \E x \in DOMAIN last.lhs \cap DOMAIN last.rhs : Out[x] = 2
  /\ \E y \in DOMAIN last.rhs \ DOMAIN last.lhs : Out[y] = last.rhs[y]

C10_SumThenDifference ==
  (last.op = "sub" /\ last.undo # {} /\ Positive(last.rhs)) =>
    \A c \in last.undo : Positive(c) => Out = c

\* d holds a key that c does not
C10_Witness ==
  /\ last.op = "sub"
  /\ Positive(last.rhs)
  /\ \E c \in last.undo :
       /\ Positive(c) /\ c # EmptyMap
       /\ DOMAIN last.rhs \ DOMAIN c # {}
       /\ DOMAIN last.rhs \cap DOMAIN c # {}
       /\ Out = c

====
